---- MODULE Spec2Model ----
(***************************************************************************)
(* Model of cogs/meta.py (the Meta cog): the guild prefix commands, the    *)
(* `info` user lookup, the channel classification of `serverinfo`, and the *)
(* commands that reach outside the invoking context (feedback, pm, msgraw, *)
(* debugpermissions).                                                      *)
(*                                                                         *)
(* Strings whose characters the code inspects (prefixes, mentions, embed   *)
(* lines) are sequences of one-character strings.  Fixed message texts are *)
(* TLA+ strings.  A message body is the sequence of the pieces an f-string *)
(* or a literal puts together.                                             *)
(*                                                                         *)
(* An invocation is one action: argument conversion, the command body and  *)
(* the error handlers of the cog run to completion inside it.  Permission  *)
(* decorators (checks.is_mod, guild_only) are taken as passed.             *)
(***************************************************************************)
EXTENDS Integers, Sequences, FiniteSets, TLC

VARIABLES
    stored,     \* the guild's raw custom prefix list in the external store
    cmd,        \* name of the last command invoked
    arg,        \* its argument as typed (a character sequence)
    before,     \* `stored` as it was when the invocation began
    sent,       \* the messages the invocation sent to ctx, in order
    set_calls,  \* the lists the invocation passed to set_guild_prefixes
    raised,     \* the error text set_guild_prefixes raised, or NoError
    error,      \* class of the command error dispatched to the error handlers
    returned,   \* `prefix`: the list get_guild_prefixes returned
    lookup,     \* `info`: how the user argument resolved
    guild,      \* `serverinfo`: the guild's everyone permissions and channels
    perms,      \* `serverinfo`: effective permission value of each channel
    secret,     \* `serverinfo`: Counter of locked channels per channel type
    totals,     \* `serverinfo`: Counter of channels per channel type
    env         \* feedback, pm, msgraw, debugpermissions: what the invocation
                \* met outside ctx (the failure, what went to another channel)

vars == <<stored, cmd, arg, before, sent, set_calls, raised, error,
          returned, lookup, guild, perms, secret, totals, env>>

prefix_vars == <<stored, before, set_calls, raised>>
list_vars == <<returned>>
info_vars == <<lookup>>
serverinfo_vars == <<guild, perms, secret, totals>>
misc_vars == <<env>>

----------------------------------------------------------------------------
(* Bounds *)

MaxStored == 3      \* longest stored prefix list explored
MaxListed == 4      \* longest list get_guild_prefixes returns
MaxChannels == 1    \* most channels of a guild

----------------------------------------------------------------------------
(* Text *)

NoError == "NoError"

DigitChar(d) ==
    CASE d = 0 -> "0" [] d = 1 -> "1" [] d = 2 -> "2" [] d = 3 -> "3"
      [] d = 4 -> "4" [] d = 5 -> "5" [] d = 6 -> "6" [] d = 7 -> "7"
      [] d = 8 -> "8" [] d = 9 -> "9"

RECURSIVE Str(_)
\* str(n) of a non-negative int, as the f-string {n} renders it
Str(n) == IF n < 10 THEN <<DigitChar(n)>>
          ELSE Str(n \div 10) \o <<DigitChar(n % 10)>>

\* str.startswith(tuple): some member of `heads` is a leading slice
startswith(s, heads) ==
    \E h \in heads : Len(h) <= Len(s) /\ SubSeq(s, 1, Len(h)) = h

RECURSIVE join(_, _)
\* sep.join(parts)
join(sep, parts) ==
    IF parts = <<>> THEN <<>>
    ELSE IF Len(parts) = 1 THEN parts[1]
    ELSE parts[1] \o sep \o join(sep, Tail(parts))

----------------------------------------------------------------------------
(* Messages *)

Text(body) == [kind |-> "text", body |-> body, title |-> "",
               footer |-> <<>>, description |-> <<>>, fields |-> <<>>]

Embed(title, footer, description, fields) ==
    [kind |-> "embed", body |-> <<>>, title |-> title,
     footer |-> footer, description |-> description, fields |-> fields]

Field(name, value) == [name |-> name, value |-> value]

\* ctx.tick(opt): the success / failure indicator
tick(opt) == IF opt THEN "tick(True)" ELSE "tick(False)"

\* env of an invocation that met no failure and sent nothing elsewhere
NoEnv == [failure |-> "", relayed |-> <<>>]

----------------------------------------------------------------------------
(* Errors *)

BadArgument(text) == [class |-> "BadArgument", text |-> text]
BadUnionArgument == [class |-> "BadUnionArgument", text |-> ""]
CommandInvokeError(text) == [class |-> "CommandInvokeError", text |-> text]
Ok(value) == [class |-> NoError, value |-> value]

\* Meta.cog_command_error: replies with the error only if it is a BadArgument
cog_command_error(err) ==
    IF err.class = "BadArgument" THEN <<Text(<<err.text>>)>> ELSE <<>>

----------------------------------------------------------------------------
(* The bot *)

user_id == 7

MentionForms == { <<"<", "@">> \o Str(user_id) \o <<">">>,
                  <<"<", "@", "!">> \o Str(user_id) \o <<">">> }

\* (mutant) only the first mention form is recognised
Prefix_convert_one_form(argument) ==
    IF startswith(argument, { <<"<", "@">> \o Str(user_id) \o <<">">> })
    THEN BadArgument("That is a reserved prefix already in use.")
    ELSE Ok(argument)

\* Prefix.convert
Prefix_convert(argument) ==
    IF startswith(argument, MentionForms)
    THEN BadArgument("That is a reserved prefix already in use.")
    ELSE Ok(argument)

\* what a user may type as the prefix argument: plain prefixes, the mention
\* of another user (id 77), both mention forms of the bot, and a longer
\* string that begins with one
Arguments ==
    { <<"!">>, <<"?">>,
      <<"<", "@">> \o Str(user_id) \o Str(user_id) \o <<">">>,
      <<"<", "@">> \o Str(user_id) \o <<">">>,
      <<"<", "@", "!">> \o Str(user_id) \o <<">">>,
      <<"<", "@">> \o Str(user_id) \o <<">", "!">> }

\* the texts of the errors the external setter can raise
SetterErrors == {"store is read-only", "connection lost"}
SetterOutcomes == {NoError} \cup SetterErrors

\* bot.get_raw_guild_prefixes(guild_id): the guild's stored list
get_raw_guild_prefixes == stored

\* What the store holds once the handler has changed the list it got from
\* get_raw_guild_prefixes in place: the changed list if the getter handed out
\* the store's own list object (shares), the old content if it handed out a
\* copy.
held(current_prefixes, shares) == IF shares THEN current_prefixes ELSE stored

\* bot.set_guild_prefixes(guild, prefixes): persists the list it is given, or
\* raises and leaves the store as it is (in_store)
set_guild_prefixes(prefixes, in_store, outcome) ==
    IF outcome = NoError THEN prefixes ELSE in_store

----------------------------------------------------------------------------
(* Python lists *)

RECURSIVE index(_, _)
\* position (1-based) of the first element equal to x, 0 if there is none
index(list, x) ==
    IF list = <<>> THEN 0
    ELSE IF Head(list) = x THEN 1
    ELSE LET r == index(Tail(list), x) IN IF r = 0 THEN 0 ELSE r + 1

\* (mutant) del with a 1-based index
del_one_based(list, i) == SubSeq(list, 1, i - 1) \o SubSeq(list, i + 1, Len(list))

\* del list[i] with the 0-based index i of the source (i < len(list))
del(list, i) == SubSeq(list, 1, i) \o SubSeq(list, i + 2, Len(list))

\* (mutant) remove drops the head of the list, whatever x is
remove_head(list, x) == Tail(list)

\* list.remove(x) when x is in the list: drops the first occurrence
remove(list, x) == del(list, index(list, x) - 1)

----------------------------------------------------------------------------
(* Prefix commands *)

\* prefix_add_error: replies only to TooManyArguments
prefix_add_error(err) ==
    IF err.class = "TooManyArguments"
    THEN <<Text(<<"You've given too many prefixes. Either quote it or only do it one by one.">>)>>
    ELSE <<>>

\* the try/except/else around set_guild_prefixes in prefix_add / prefix_remove
set_reply(outcome) ==
    IF outcome # NoError
    THEN <<Text(<<tick(FALSE), " ", outcome>>)>>
    ELSE <<Text(<<tick(TRUE)>>)>>

\* Meta.prefix_add
prefix_add(argument, shares, outcome) ==
    LET conv == Prefix_convert(argument) IN
    /\ Len(stored) < MaxStored
    /\ cmd' = "prefix add" /\ arg' = argument /\ before' = stored
    /\ IF conv.class # NoError
       THEN /\ error' = conv.class
            /\ sent' = prefix_add_error(conv) \o cog_command_error(conv)
            /\ set_calls' = <<>> /\ raised' = NoError
            /\ stored' = stored
       ELSE LET current_prefixes == Append(get_raw_guild_prefixes, conv.value) IN
            /\ error' = NoError
            /\ set_calls' = <<current_prefixes>> /\ raised' = outcome
            /\ stored' = set_guild_prefixes(current_prefixes,
                                            held(current_prefixes, shares), outcome)
            /\ sent' = set_reply(outcome)
    /\ env' = NoEnv
    /\ UNCHANGED <<list_vars, info_vars, serverinfo_vars>>

\* (mutant) list.remove never raises
remove_raises_never(list, x) == FALSE

\* list.remove(x) raises ValueError when x is not in the list
remove_raises(list, x) == index(list, x) = 0

\* Meta.prefix_remove
prefix_remove(argument, shares, outcome) ==
    LET conv == Prefix_convert(argument) IN
    /\ cmd' = "prefix remove" /\ arg' = argument /\ before' = stored
    /\ IF conv.class # NoError
       THEN /\ error' = conv.class
            /\ sent' = cog_command_error(conv)
            /\ set_calls' = <<>> /\ raised' = NoError
            /\ stored' = stored
       ELSE IF remove_raises(get_raw_guild_prefixes, conv.value)
       THEN /\ error' = NoError
            /\ sent' = <<Text(<<"I do not have this prefix registered.">>)>>
            /\ set_calls' = <<>> /\ raised' = NoError
            /\ stored' = stored
       ELSE LET current_prefixes == remove(get_raw_guild_prefixes, conv.value) IN
            /\ error' = NoError
            /\ set_calls' = <<current_prefixes>> /\ raised' = outcome
            /\ stored' = set_guild_prefixes(current_prefixes,
                                            held(current_prefixes, shares), outcome)
            /\ sent' = set_reply(outcome)
    /\ env' = NoEnv
    /\ UNCHANGED <<list_vars, info_vars, serverinfo_vars>>

\* (mutant) clear hands the setter the list as it stands
no_prefixes_keeps == stored

\* the list prefix_clear hands to the setter: []
no_prefixes == <<>>

\* Meta.prefix_clear: the call to set_guild_prefixes is not inside a try, so
\* what it raises leaves the command as a CommandInvokeError and the tick is
\* not reached
prefix_clear(outcome) ==
    /\ cmd' = "prefix clear" /\ arg' = <<>> /\ before' = stored
    /\ set_calls' = <<no_prefixes>> /\ raised' = outcome
    /\ stored' = set_guild_prefixes(no_prefixes, stored, outcome)
    /\ IF outcome # NoError
       THEN /\ error' = "CommandInvokeError"
            /\ sent' = cog_command_error(CommandInvokeError(outcome))
       ELSE /\ error' = NoError
            /\ sent' = <<Text(<<tick(TRUE)>>)>>
    /\ env' = NoEnv
    /\ UNCHANGED <<list_vars, info_vars, serverinfo_vars>>

----------------------------------------------------------------------------
(* prefix: the listing *)

RECURSIVE Lists(_, _)
\* every list over `elems` of at most n entries
Lists(elems, n) ==
    IF n = 0 THEN { <<>> }
    ELSE LET shorter == Lists(elems, n - 1) IN
         shorter \cup { Append(l, e) : l \in shorter, e \in elems }

\* the entries get_guild_prefixes may return: the two mention forms of the
\* bot and two plain prefixes
Listed == MentionForms \cup { <<"!">>, <<"?">> }

\* bot.get_guild_prefixes(guild)
get_guild_prefixes == returned

\* (mutant) enumerate that ignores its start and counts from 0
enumerate_from_zero(list, start) ==
    [i \in 1..Len(list) |-> [index |-> i - 1, elem |-> list[i]]]

\* enumerate(list, start)
enumerate(list, start) ==
    [i \in 1..Len(list) |-> [index |-> start + i - 1, elem |-> list[i]]]

\* f"{index}. {elem}"
prefix_line(number, elem) == Str(number) \o <<".", " ">> \o elem

\* Meta.prefix: del prefixes[1] raises IndexError on a list shorter than two,
\* which leaves the command as a CommandInvokeError
prefix ==
    /\ cmd' = "prefix" /\ arg' = <<>>
    /\ IF Len(get_guild_prefixes) < 2
       THEN /\ error' = "CommandInvokeError"
            /\ sent' = cog_command_error(CommandInvokeError("IndexError"))
       ELSE LET prefixes == del(get_guild_prefixes, 1)
                numbered == enumerate(prefixes, 1)
                e == Embed("Prefixes",
                           Str(Len(prefixes)) \o <<" prefixes">>,
                           join(<<"\n">>,
                                [i \in 1..Len(numbered) |->
                                   prefix_line(numbered[i].index, numbered[i].elem)]),
                           <<>>)
            IN /\ error' = NoError
               /\ sent' = <<e>>
    /\ UNCHANGED <<prefix_vars, list_vars, info_vars, serverinfo_vars, misc_vars>>

----------------------------------------------------------------------------
(* info *)

DigitChars == {"0", "1", "2", "3", "4", "5", "6", "7", "8", "9"}

\* str.isdigit()
isdigit(s) == s # <<>> /\ \A i \in 1..Len(s) : s[i] \in DigitChars

\* FetchedUser.convert; fetch is what bot.fetch_user does: it returns a User,
\* raises NotFound, or raises another HTTPException
FetchedUser_convert(argument, fetch) ==
    IF ~isdigit(argument) THEN BadArgument("Not a valid user ID.")
    ELSE IF fetch = "User" THEN Ok("User")
    ELSE IF fetch = "NotFound" THEN BadArgument("User not found.")
    ELSE BadArgument("An error occurred while fetching the user.")

\* discord.Member as a converter; member_found is whether the lookup hits
Member_convert(argument, member_found) ==
    IF member_found THEN Ok("Member") ELSE BadArgument("Member not found")

\* The parameter `user: Union[discord.Member, FetchedUser] = None`: the
\* converters are tried in order and the first success is the value; when
\* all fail the command framework raises BadUnionArgument, a UserInputError
\* that is not a BadArgument and carries the converters' errors inside it.
Union_convert(first, second) ==
    IF first.class = NoError THEN first
    ELSE IF second.class = NoError THEN second
    ELSE BadUnionArgument

\* what may be typed as the user argument: nothing, a numeric id, a name
NoArgument == <<>>
UserArguments == { NoArgument, <<"4", "2">>, <<"b", "o", "b">> }

Lookups ==
    [argument : UserArguments, member_found : BOOLEAN,
     fetch : {"User", "NotFound", "HTTPException"},
     in_guild : BOOLEAN, guild_member : BOOLEAN,
     voice : BOOLEAN, roles : BOOLEAN]

\* Meta.info; the embed's fields are kept by name, with the value only where
\* the code chooses between alternatives
info ==
    LET conv == IF lookup.argument = NoArgument THEN Ok("None")
                ELSE Union_convert(
                         Member_convert(lookup.argument, lookup.member_found),
                         FetchedUser_convert(lookup.argument, lookup.fetch))
    IN
    /\ cmd' = "info" /\ arg' = lookup.argument
    /\ IF conv.class # NoError
       THEN /\ error' = conv.class
            /\ sent' = cog_command_error(conv)
       ELSE LET author == IF lookup.in_guild THEN "Member" ELSE "User"
                given == IF conv.value = "None" THEN author ELSE conv.value
                user == IF lookup.in_guild /\ given = "User" /\ lookup.guild_member
                        THEN "Member" ELSE given
                is_member == user = "Member"
                e == Embed("",
                       IF user = "User"
                       THEN <<"This member is not in this server.">> ELSE <<>>,
                       <<>>,
                       <<Field("ID", "id"), Field("Servers", "shared"),
                         Field("Joined", IF is_member THEN "joined_at" ELSE "N/A"),
                         Field("Created", "created_at")>>
                       \o (IF is_member /\ lookup.voice
                           THEN <<Field("Voice", "voice")>> ELSE <<>>)
                       \o (IF is_member /\ lookup.roles
                           THEN <<Field("Roles", "roles")>> ELSE <<>>))
            IN /\ error' = NoError
               /\ sent' = <<e>>
    /\ UNCHANGED <<prefix_vars, list_vars, info_vars, serverinfo_vars, misc_vars>>

----------------------------------------------------------------------------
(* serverinfo: which channels are 'secret' *)

\* Python ints are unbounded two's complement: ~x
invert(x) == -x - 1

RECURSIVE and(_, _)
\* x & y
and(x, y) ==
    IF x = 0 \/ y = 0 THEN 0
    ELSE IF x = -1 THEN y
    ELSE IF y = -1 THEN x
    ELSE 2 * and(x \div 2, y \div 2)
         + (IF x % 2 = 1 /\ y % 2 = 1 THEN 1 ELSE 0)

RECURSIVE or(_, _)
\* x | y
or(x, y) ==
    IF x = 0 THEN y
    ELSE IF y = 0 THEN x
    ELSE IF x = -1 \/ y = -1 THEN -1
    ELSE 2 * or(x \div 2, y \div 2)
         + (IF x % 2 = 1 \/ y % 2 = 1 THEN 1 ELSE 0)

\* the permission flags the classification reads
read_messages == 2^10
connect == 2^20
speak == 2^21

\* perms.<flag>: the flag's bit of the value, flag being a single bit
has(value, flag) == (value \div flag) % 2 = 1

\* (mutant) the overwrite applied in the other order: allow first, then deny
channel_perms_deny_last(everyone_perms, allow, deny) ==
    and(or(everyone_perms, allow), invert(deny))

\* discord.Permissions((everyone_perms & ~deny.value) | allow.value)
channel_perms(everyone_perms, allow, deny) ==
    or(and(everyone_perms, invert(deny)), allow)

\* the body of the loop's if / elif: the channel counts as secret
is_secret(channel, value) ==
    IF ~has(value, read_messages) THEN TRUE
    ELSE channel.type = "VoiceChannel"
         /\ (~has(value, connect) \/ ~has(value, speak))

\* the channel types explored: the two that key_to_emoji lists
ChannelTypes == {"TextChannel", "VoiceChannel"}

\* the permission values explored: every combination of the three flags
PermValues ==
    { a + b + c : a \in {0, read_messages}, b \in {0, connect}, c \in {0, speak} }

ChannelSet == [type : ChannelTypes, allow : PermValues, deny : PermValues]

\* a guild the command resolves, or none (an owner gave an id get_guild
\* does not know)
Guilds ==
    [exists : {TRUE}, everyone_perms : PermValues,
     channels : UNION { [1..n -> ChannelSet] : n \in 0..MaxChannels }]
    \cup { [exists |-> FALSE, everyone_perms |-> 0, channels |-> <<>>] }

\* totals: Counter of the channels per type
count_totals(channels) ==
    [t \in ChannelTypes |->
        Cardinality({ i \in 1..Len(channels) : channels[i].type = t })]

\* secret: Counter of the secret channels per type
count_secret(channels, values) ==
    [t \in ChannelTypes |->
        Cardinality({ i \in 1..Len(channels) :
                        channels[i].type = t /\ is_secret(channels[i], values[i]) })]

RECURSIVE keys(_, _)
\* the keys of the totals Counter in insertion order
keys(channels, seen) ==
    IF channels = <<>> THEN <<>>
    ELSE IF channels[1].type \in seen THEN keys(Tail(channels), seen)
    ELSE <<channels[1].type>> \o keys(Tail(channels), seen \cup {channels[1].type})

key_to_emoji == [TextChannel |-> "<:TextChannel:>", VoiceChannel |-> "<:VoiceChannel:>"]

RECURSIVE channel_info(_, _, _)
\* one line per channel type that has an emoji
channel_info(order, total, locked) ==
    IF order = <<>> THEN <<>>
    ELSE LET key == order[1]
             rest == channel_info(Tail(order), total, locked)
         IN IF key \notin DOMAIN key_to_emoji THEN rest
            ELSE IF locked[key] # 0
            THEN << <<key_to_emoji[key], " ">> \o Str(total[key]) \o <<" (">>
                    \o Str(locked[key]) \o <<" locked)">> >> \o rest
            ELSE << <<key_to_emoji[key], " ">> \o Str(total[key]) >> \o rest

\* Meta.serverinfo: the guild lookup and the channel classification; of the
\* embed, the field built from the classification
serverinfo ==
    /\ cmd' = "serverinfo" /\ arg' = <<>> /\ error' = NoError
    /\ IF ~guild.exists
       THEN /\ sent' = <<Text(<<"Invalid Guild ID given.">>)>>
            /\ UNCHANGED <<perms, secret, totals>>
       ELSE LET channels == guild.channels IN
            /\ perms' = [i \in 1..Len(channels) |->
                            channel_perms(guild.everyone_perms,
                                          channels[i].allow, channels[i].deny)]
            /\ totals' = count_totals(channels)
            /\ secret' = count_secret(channels, perms')
            /\ sent' = <<Embed("guild.name", <<"Created">>, <<>>,
                          <<Field("Channels",
                                  channel_info(keys(channels, {}), totals', secret'))>>)>>
    /\ UNCHANGED <<prefix_vars, list_vars, info_vars, guild, misc_vars>>

----------------------------------------------------------------------------
(* feedback, pm, msgraw, debugpermissions *)

\* an error raised inside a command body that is not a CommandError: the
\* framework hands it to the error handlers wrapped, with the error itself
\* as `original`
Wrapped(original) ==
    [class |-> "CommandInvokeError", text |-> original.text, original |-> original]

HTTPException(class) == [class |-> class, text |-> class]

\* discord.HTTPException and its subclasses
HTTPExceptions == {"HTTPException", "NotFound", "Forbidden"}

Contents == {"hello", "it broke"}

\* the embed feedback sends to the relay channel
feedback_embed(content, in_guild) ==
    Embed("Feedback", <<"Author ID: ", "ctx.author.id">>, <<content>>,
          (IF in_guild THEN <<Field("Server", "ctx.guild")>> ELSE <<>>)
          \o <<Field("Channel", "ctx.channel")>>)

\* Meta.feedback; relay is whether bot.get_channel knows the relay channel,
\* delivery what channel.send does.  Without the channel the command
\* returns at once; an error of channel.send is not caught.
feedback(content, in_guild, relay, delivery) ==
    /\ cmd' = "feedback" /\ arg' = <<content>>
    /\ IF ~relay
       THEN /\ error' = NoError
            /\ sent' = <<>>
            /\ env' = [failure |-> "no relay channel", relayed |-> <<>>]
       ELSE IF delivery # NoError
       THEN /\ error' = "CommandInvokeError"
            /\ sent' = cog_command_error(Wrapped(HTTPException(delivery)))
            /\ env' = [failure |-> "http failure", relayed |-> <<>>]
       ELSE /\ error' = NoError
            /\ sent' = <<Text(<<tick(TRUE), " Successfully sent feedback">>)>>
            /\ env' = [failure |-> "",
                       relayed |-> <<feedback_embed(content, in_guild)>>]
    /\ before' = stored /\ set_calls' = <<>> /\ raised' = NoError
    /\ UNCHANGED <<stored, list_vars, info_vars, serverinfo_vars>>

TargetIds == {4, 42}

\* Meta._pm; known is whether bot.get_user finds the user (user.send on None
\* raises inside the try), delivery what user.send does.  The bare except
\* catches both.
pm(target_id, content, known, delivery) ==
    /\ cmd' = "pm" /\ arg' = Str(target_id) \o <<" ", content>>
    /\ error' = NoError
    /\ IF ~known \/ delivery # NoError
       THEN /\ sent' = <<Text(<<"Could not PM user by ID ">> \o Str(target_id) \o <<".">>)>>
            /\ env' = [failure |-> "dm failure", relayed |-> <<>>]
       ELSE /\ sent' = <<Text(<<"PM successfully sent.">>)>>
            /\ env' = [failure |-> "",
                       relayed |-> <<Text(<<content, "\n\n*This is a DM sent because you had previously requested feedback or I found a bug in a command you used, I do not monitor this DM.*">>)>>]
    /\ before' = stored /\ set_calls' = <<>> /\ raised' = NoError
    /\ UNCHANGED <<stored, list_vars, info_vars, serverinfo_vars>>

\* Meta.mgsr_error: looks at error.original when there is one and replies
\* to any HTTPException
mgsr_error(err) ==
    LET e == IF "original" \in DOMAIN err THEN err.original ELSE err IN
    IF e.class \in HTTPExceptions
    THEN <<Text(<<"The specified message's content is too long to repeat.">>)>>
    ELSE <<>>

\* Meta.raw_message; fetch is what http.get_message does (the payload,
\* NotFound, or another HTTPException), reply what sending the dump does
raw_message(message_id, fetch, reply) ==
    LET failed == IF fetch = "NotFound"
                  THEN BadArgument(<<"Message with the ID of ">> \o Str(message_id)
                                   \o <<" cannot be found in ", "ctx.channel.mention", ".">>)
                  ELSE IF fetch # "message" THEN Wrapped(HTTPException(fetch))
                  ELSE IF reply # NoError THEN Wrapped(HTTPException(reply))
                  ELSE Ok("sent")
    IN
    /\ cmd' = "msgraw" /\ arg' = Str(message_id)
    /\ error' = failed.class
    /\ IF failed.class = NoError
       THEN /\ sent' = <<Text(<<"(json code fence)", "json.dumps(msg)", "(end of fence)">>)>>
            /\ env' = NoEnv
       ELSE /\ sent' = mgsr_error(failed) \o cog_command_error(failed)
            /\ env' = [failure |-> IF fetch = "NotFound" THEN "not found"
                                   ELSE "http failure",
                       relayed |-> <<>>]
    /\ before' = stored /\ set_calls' = <<>> /\ raised' = NoError
    /\ UNCHANGED <<stored, list_vars, info_vars, serverinfo_vars>>

\* Meta.debugpermissions, with say_permissions as one embed
debugpermissions(guild_found, channel_found, author_given, member_found) ==
    /\ cmd' = "debugpermissions" /\ arg' = <<>> /\ error' = NoError
    /\ IF ~guild_found
       THEN /\ sent' = <<Text(<<"Guild not found?">>)>>
            /\ env' = [failure |-> "not found", relayed |-> <<>>]
       ELSE IF ~channel_found
       THEN /\ sent' = <<Text(<<"Channel not found?">>)>>
            /\ env' = [failure |-> "not found", relayed |-> <<>>]
       ELSE IF author_given /\ ~member_found
       THEN /\ sent' = <<Text(<<"Member not found?">>)>>
            /\ env' = [failure |-> "not found", relayed |-> <<>>]
       ELSE /\ sent' = <<Embed("", <<>>, <<>>,
                               <<Field("Allowed", "allowed"),
                                 Field("Denied", "denied")>>)>>
            /\ env' = NoEnv
    /\ before' = stored /\ set_calls' = <<>> /\ raised' = NoError
    /\ UNCHANGED <<stored, list_vars, info_vars, serverinfo_vars>>

----------------------------------------------------------------------------
(* Specifications *)

NoCounts == [t \in ChannelTypes |-> 0]

Quiet ==
    /\ stored = <<>> /\ before = <<>> /\ set_calls = <<>> /\ raised = NoError
    /\ cmd = "" /\ arg = <<>> /\ sent = <<>> /\ error = NoError
    /\ perms = <<>> /\ secret = NoCounts /\ totals = NoCounts
    /\ env = NoEnv

NoGuild == [exists |-> FALSE, everyone_perms |-> 0, channels |-> <<>>]

NoLookup == [argument |-> NoArgument, member_found |-> FALSE, fetch |-> "User",
             in_guild |-> TRUE, guild_member |-> FALSE,
             voice |-> FALSE, roles |-> FALSE]

\* The prefix commands that change the stored list, invoked in any order
Init == Quiet /\ returned = <<>> /\ lookup = NoLookup /\ guild = NoGuild

Next ==
    \/ \E argument \in Arguments, shares \in BOOLEAN, outcome \in SetterOutcomes :
          prefix_add(argument, shares, outcome)
    \/ \E argument \in Arguments, shares \in BOOLEAN, outcome \in SetterOutcomes :
          prefix_remove(argument, shares, outcome)
    \/ \E outcome \in SetterOutcomes : prefix_clear(outcome)

Spec == Init /\ [][Next]_vars

\* The listing, for each list get_guild_prefixes may return
InitList ==
    Quiet /\ returned \in Lists(Listed, MaxListed)
          /\ lookup = NoLookup /\ guild = NoGuild

SpecList == InitList /\ [][prefix]_vars

\* info, for each way the user argument may resolve
InitInfo == Quiet /\ returned = <<>> /\ lookup \in Lookups /\ guild = NoGuild

SpecInfo == InitInfo /\ [][info]_vars

\* serverinfo, for each guild
InitServerInfo ==
    Quiet /\ returned = <<>> /\ lookup = NoLookup /\ guild \in Guilds

SpecServerInfo == InitServerInfo /\ [][serverinfo]_vars

\* The prefix commands together with the commands that reach outside ctx
NextCommands ==
    \/ Next
    \/ \E content \in Contents, in_guild \in BOOLEAN, relay \in BOOLEAN,
          delivery \in {NoError, "HTTPException"} :
          feedback(content, in_guild, relay, delivery)
    \/ \E target_id \in TargetIds, content \in Contents, known \in BOOLEAN,
          delivery \in {NoError, "Forbidden"} :
          pm(target_id, content, known, delivery)
    \/ \E message_id \in TargetIds, fetch \in {"message", "NotFound", "Forbidden"},
          reply \in {NoError, "HTTPException"} :
          raw_message(message_id, fetch, reply)
    \/ \E guild_found \in BOOLEAN, channel_found \in BOOLEAN,
          author_given \in BOOLEAN, member_found \in BOOLEAN :
          debugpermissions(guild_found, channel_found, author_given, member_found)

SpecCommands == Init /\ [][NextCommands]_vars

----------------------------------------------------------------------------
(* Properties *)

SuccessTick == Text(<<"tick(True)">>)
FailureReply(text) == Text(<<"tick(False)", " ", text>>)
Says(text) == <<Text(<<text>>)>>

BotMention == <<"<", "@", "7", ">">>
BotNickMention == <<"<", "@", "!", "7", ">">>

\* the argument begins with one of the two mention encodings of the bot's id
BeginsWithBotMention(s) ==
    \E k \in 1..Len(s) : SubSeq(s, 1, k) \in {BotMention, BotNickMention}

\* C1: after any sequence of prefix add / remove / clear invocations, failed
\* setter calls included, the stored prefix list never holds the same string
\* twice.
C1_NoDuplicates == \A i, j \in 1..Len(stored) : stored[i] = stored[j] => i = j

\* C2: `prefix add p` with p already in the stored list L is rejected: no
\* success tick is sent and the stored list afterwards equals L.
C2_DuplicateAddRejected ==
    (cmd = "prefix add" /\ \E i \in 1..Len(before) : before[i] = arg)
        => (\A k \in 1..Len(sent) : sent[k] # SuccessTick) /\ stored = before

\* C3: `prefix add` with an argument that begins with either mention encoding
\* of the bot's id is answered with "That is a reserved prefix already in
\* use.", never calls set_guild_prefixes and leaves the stored list unchanged.
C3_ReservedAddRejected ==
    (cmd = "prefix add" /\ BeginsWithBotMention(arg))
        => /\ sent = Says("That is a reserved prefix already in use.")
           /\ set_calls = <<>>
           /\ stored = before

C3_Witness ==
    /\ cmd = "prefix add" /\ arg = BotNickMention /\ before # <<>>
    /\ sent = Says("That is a reserved prefix already in use.")

\* C4 as stated: `prefix remove p` with any p that is not in the stored list L
\* sends "I do not have this prefix registered.", does not call
\* set_guild_prefixes and leaves the stored list equal to L.
C4_AbsentRemoveReported ==
    (cmd = "prefix remove" /\ \A i \in 1..Len(before) : before[i] # arg)
        => /\ sent = Says("I do not have this prefix registered.")
           /\ set_calls = <<>>
           /\ stored = before

\* C4 amended: the same for every p not in L that does not begin with a
\* mention encoding of the bot's id; a p that does is answered by the
\* reserved-prefix message instead, again with no setter call and the stored
\* list unchanged.
C4_AbsentRemoveReported_NotReserved ==
    (cmd = "prefix remove" /\ \A i \in 1..Len(before) : before[i] # arg)
        => /\ sent = IF BeginsWithBotMention(arg)
                     THEN Says("That is a reserved prefix already in use.")
                     ELSE Says("I do not have this prefix registered.")
           /\ set_calls = <<>>
           /\ stored = before

C4_Witness ==
    /\ cmd = "prefix remove" /\ arg = <<"?">> /\ before = << <<"!">> >>
    /\ sent = Says("I do not have this prefix registered.")

NumberedLines(entries) ==
    [i \in 1..Len(entries) |-> <<DigitChar(i), ".", " ">> \o entries[i]]

\* C6: for a list P of length >= 2 returned by get_guild_prefixes, `prefix`
\* shows exactly the entries of P other than the one at index 1, in their
\* order, numbered from 1, and the footer count is len(P) - 1.
C6_ListingOmitsIndexOne ==
    (cmd = "prefix" /\ Len(returned) >= 2)
        => LET shown == [i \in 1..(Len(returned) - 1) |->
                            IF i = 1 THEN returned[1] ELSE returned[i + 1]]
           IN /\ Len(sent) = 1
              /\ sent[1].kind = "embed"
              /\ sent[1].description = join(<<"\n">>, NumberedLines(shown))
              /\ sent[1].footer = <<DigitChar(Len(returned) - 1), " prefixes">>

C6_Witness ==
    /\ cmd = "prefix" /\ Len(returned) = 4 /\ returned[2] = <<"?">>
    /\ Len(sent) = 1 /\ sent[1].footer = <<"3", " prefixes">>

FourEntryList == << <<"!">>, BotMention, BotNickMention, <<"?">> >>

\* C7 as stated: when get_guild_prefixes returns ["!", "<mention>",
\* "<mention2>", "?"], the listing is only the two lines `1. !` and `2. ?`.
C7_ListingHidesBothMentions ==
    (cmd = "prefix" /\ returned = FourEntryList)
        => /\ Len(sent) = 1
           /\ sent[1].description = <<"1", ".", " ", "!", "\n", "2", ".", " ", "?">>

\* C7 amended: for that list the listing is the three lines `1. !`,
\* `2. <mention2>` and `3. ?`: only the entry at index 1 is left out.
C7_ListingHidesIndexOneOnly ==
    (cmd = "prefix" /\ returned = FourEntryList)
        => /\ Len(sent) = 1
           /\ sent[1].description =
                 <<"1", ".", " ", "!", "\n">>
                 \o <<"2", ".", " ">> \o BotNickMention \o <<"\n">>
                 \o <<"3", ".", " ", "?">>

C7_Witness ==
    cmd = "prefix" /\ returned = FourEntryList /\ Len(sent) = 1

\* bit b of a non-negative value
Bit(value, b) == (value \div 2^b) % 2 = 1

FlagBits == 0..22

\* C8: for every channel, the effective permission value serverinfo
\* classifies it by has, at every bit, (base and not deny) or allow; a bit
\* set in both allow and deny is set.
C8_EffectivePermissionBits ==
    (cmd = "serverinfo" /\ guild.exists)
        => /\ Len(perms) = Len(guild.channels)
           /\ \A i \in 1..Len(perms) :
                /\ perms[i] >= 0 /\ perms[i] < 2^23
                /\ \A b \in FlagBits :
                     Bit(perms[i], b) <=>
                        \/ Bit(guild.everyone_perms, b)
                              /\ ~Bit(guild.channels[i].deny, b)
                        \/ Bit(guild.channels[i].allow, b)

C8_Witness ==
    /\ cmd = "serverinfo" /\ Len(perms) >= 1
    /\ Bit(guild.channels[1].allow, 10) /\ Bit(guild.channels[1].deny, 10)
    /\ ~Bit(guild.everyone_perms, 10)
    /\ Bit(perms[1], 10)

\* C9: when set_guild_prefixes raises in prefix add, prefix remove or prefix
\* clear, the handler catches the error and replies with the failure
\* indicator followed by the error text; no success tick is sent and no
\* error leaves the handler.
C9_SetterErrorReported ==
    (cmd \in {"prefix add", "prefix remove", "prefix clear"} /\ raised # NoError)
        => sent = <<FailureReply(raised)>> /\ error = NoError

\* C10: `info` with a numeric id that resolves to no member and for which
\* fetch_user reports not-found sends exactly "User not found." and no embed.
C10_UserNotFoundReported ==
    (cmd = "info" /\ lookup.argument = <<"4", "2">>
        /\ ~lookup.member_found /\ lookup.fetch = "NotFound")
        => sent = Says("User not found.")

\* a `prefix add p` that succeeded, with p not reserved and not in the list
AddedNewPrefix ==
    /\ cmd = "prefix add" /\ ~BeginsWithBotMention(arg)
    /\ \A i \in 1..Len(before) : before[i] # arg
    /\ raised = NoError /\ sent = <<SuccessTick>>

\* C12: a successful `prefix add p` (p not reserved, not in the stored list
\* L) leaves the list equal to L with p appended at the end, and a successful
\* `prefix remove p` that follows it leaves the list equal to L again,
\* entry for entry.
C12_RemoveInvertsAdd ==
    /\ [](AddedNewPrefix => stored = before \o <<arg>>)
    /\ [][ (/\ AddedNewPrefix
            /\ cmd' = "prefix remove" /\ arg' = arg
            /\ raised' = NoError /\ sent' = <<SuccessTick>>)
           => stored' = before ]_vars

C12_Witness ==
    /\ cmd = "prefix remove" /\ arg = <<"?">>
    /\ before = << <<"!">>, <<"<", "@", "7", "7", ">">>, <<"?">> >>
    /\ raised = NoError /\ sent = <<SuccessTick>>
    /\ stored = << <<"!">>, <<"<", "@", "7", "7", ">">> >>

\* the invocation met a failure: a command error, an error of the setter,
\* or one of the failures the commands that reach outside ctx record
MetFailure == error # NoError \/ raised # NoError \/ env.failure # ""

\* C11: every invocation that meets a failure (bad argument, object not
\* found, HTTP failure, persistence failure, missing relay channel, DM
\* failure) ends having sent at least one message to the invoking context.
C11_FailureIsReported == MetFailure => Len(sent) >= 1

====
